---- MODULE Spec2Model ----
(***************************************************************************)
(* OWModelEvaluation (orangecontrib/timeseries/widgets/owmodelevaluation.py) *)
(* The widget's input handlers all end in commit(); commit's loop over     *)
(* models and folds is followed step by step through pc.                   *)
(***************************************************************************)
EXTENDS Integers, Sequences, FiniteSets, TLC

\* ---------------------------------------------------------------- bounds
MaxLen == 3        \* longest series supplied on the "Time series" input
MaxFolds == 2      \* largest value entered in the "Number of folds" spin
MaxSteps == 2      \* largest value entered in the "Forecast steps" spin

\* ------------------------------------------------------------- constants
DefaultNFolds == 20
DefaultForecastSteps == 3
NaN == -1          \* a missing observation (np.isnan is true of it)

\* ------------------------------------------------------- table cells
\* A cell of the result table: 'err', a score of (true, pred), or an
\* information criterion of a fit on t.
Cell(k, t, p) == [k |-> k, t |-> t, p |-> p]
Err == Cell("err", <<>>, <<>>)

\* ------------------------------------------------------- input series
SeriesKinds == {"ones", "zero", "nan"}

MkSeries(n, kind) ==
    [i \in 1..n |-> CASE kind = "ones" -> 1
                      [] kind = "zero" -> IF i = 1 THEN 0 ELSE 1
                      [] OTHER -> IF i = n THEN NaN ELSE 1]

NoData == [present |-> FALSE, target |-> FALSE, y |-> <<>>]

DataInputs ==
    {NoData} \cup
    {[present |-> TRUE, target |-> FALSE, y |-> MkSeries(n, "ones")] :
        n \in 0..MaxLen} \cup
    {[present |-> TRUE, target |-> TRUE, y |-> MkSeries(n, kd)] :
        n \in 0..MaxLen, kd \in SeriesKinds}

\* Timeseries.interp(): the same observations with every gap filled.
RECURSIVE interp(_)
interp(y) ==
    IF Len(y) = 0 THEN <<>>
    ELSE LET head == interp(SubSeq(y, 1, Len(y) - 1))
             last == y[Len(y)]
         IN Append(head, IF last # NaN THEN last
                         ELSE IF Len(head) = 0 THEN 1 ELSE head[Len(head)])

\* ------------------------------------------------------------- models
\* The forecasting models offered on the "Time series model" input.
\*   fitMin : fit raises on a training window shorter than this
\*   pred   : "ok" | "raise" | "long" (predict returns steps + 1 values)
\*   fv     : "ok" | "raise"          (fittedvalues)
Profiles == <<
    [name |-> "A", max_order |-> 1, fitMin |-> 1, pred |-> "ok", fv |-> "ok"],
    [name |-> "B", max_order |-> 0, fitMin |-> 2, pred |-> "ok", fv |-> "ok"],
    [name |-> "P", max_order |-> 0, fitMin |-> 1, pred |-> "raise", fv |-> "ok"],
    [name |-> "L", max_order |-> 0, fitMin |-> 1, pred |-> "long", fv |-> "ok"],
    [name |-> "F", max_order |-> 0, fitMin |-> 1, pred |-> "ok", fv |-> "raise"] >>

NProfiles == Len(Profiles)
Ids == {1, 2}                       \* ids of the widget's model input links

CallerRefs == 1..NProfiles          \* the model objects the caller owns
CloneRef(id) == NProfiles + id      \* the object model.copy() allocates
Refs == CallerRefs \cup {CloneRef(id) : id \in Ids}

NoResults == [fitted |-> FALSE, train |-> <<>>]
Unallocated == [prof |-> Profiles[1], results |-> NoResults]

\* _BaseModel.copy(): an independent object with the same state.
copy(m) == [prof |-> m.prof, results |-> m.results]

\* _BaseModel.fit(train): TRUE when it returns, FALSE when it raises.
fitOk(m, train) == Len(train) >= m.prof.fitMin

\* The model after fit(train): results are those of the last fit that
\* returned; a fit that raises leaves them as they were.
fit(m, train) ==
    IF fitOk(m, train)
    THEN [m EXCEPT !.results = [fitted |-> TRUE, train |-> train]]
    ELSE m

\* _BaseModel.predict(steps)[0]: the last fitted observation, repeated.
predict(m, steps) ==
    LET tr == m.results.train
        n == IF m.prof.pred = "long" THEN steps + 1 ELSE steps
    IN [i \in 1..n |-> tr[Len(tr)]]

\* _BaseModel.fittedvalues(): one value per fitted observation.
fittedvalues(m) == m.results.train

\* ------------------------------------------------------ Python slices
Max(a, b) == IF a >= b THEN a ELSE b
Min(a, b) == IF a <= b THEN a ELSE b

\* A slice bound as Python resolves it against a sequence of length n.
PyBound(n, i) == IF i < 0 THEN Max(n + i, 0) ELSE Min(i, n)

\* s[start:stop]
PySlice(s, start, stop) ==
    SubSeq(s, PyBound(Len(s), start) + 1, PyBound(Len(s), stop))

\* The 0-based positions of a table of n rows.
Positions(n) == [i \in 1..n |-> i - 1]

\* The rows of s at the 0-based positions idx.
Take(s, idx) == [k \in 1..Len(idx) |-> s[idx[k] + 1]]

\* interp_data[:train_end]
TrainIdx(n, train_end) == PySlice(Positions(n), 0, train_end)

\* A single slice true_y[train_end:train_end + forecast_steps], which is
\* empty when the stop is 0.
TestIdx_single(n, train_end, steps) ==
    PySlice(Positions(n), train_end, train_end + steps)

\* true_y[train_end:][:forecast_steps]
TestIdx(n, train_end, steps) ==
    PySlice(PySlice(Positions(n), train_end, n), 0, steps)

\* ------------------------------------------------------- _score_vector
nonnan(true) == [i \in 1..Len(true) |-> true[i] # NaN]

\* s[mask] for a boolean mask as long as s.
RECURSIVE Masked(_, _)
Masked(s, mask) ==
    IF Len(s) = 0 THEN <<>>
    ELSE LET rest == Masked(SubSeq(s, 1, Len(s) - 1), SubSeq(mask, 1, Len(s) - 1))
         IN IF mask[Len(s)] THEN Append(rest, s[Len(s)]) ELSE rest

\* Scoring whatever is there, with no test of pred.size.
HasData_always(pred) == TRUE

\* if pred.size:
HasData(pred) == Len(pred) > 0

\* rmse, mae, mape, pocid, r2 applied to (true, pred).
ScoreNames == <<"rmse", "mae", "mape", "pocid", "r2">>
Scores(true, pred) == [i \in 1..5 |-> Cell(ScoreNames[i], true, pred)]

\* mape is undefined on a true value of zero and fails there.
mapeRaises(true) == \E i \in 1..Len(true) : true[i] = 0

ErrRow(n) == [i \in 1..n |-> Err]

\* model.results.aic, model.results.bic; a model never fitted has no results.
InfoCriteria(m) ==
    IF m.results.fitted
    THEN << Cell("aic", m.results.train, <<>>), Cell("bic", m.results.train, <<>>) >>
    ELSE ErrRow(2)

\* The row, or the exception that leaves _score_vector.
_score_vector(m, true, pred) ==
    LET nn == nonnan(true)
        all == \A i \in 1..Len(true) : nn[i]
        p == IF all THEN pred ELSE Masked(pred, nn)
        t == IF all THEN true ELSE Masked(true, nn)
    IN IF ~all /\ Len(pred) # Len(true)
       THEN [exc |-> "IndexError", row |-> <<>>]
       ELSE IF HasData(p) /\ mapeRaises(t)
       THEN [exc |-> "ZeroDivisionError", row |-> <<>>]
       ELSE [exc |-> "none",
             row |-> (IF HasData(p) THEN Scores(t, p) ELSE ErrRow(5))
                     \o InfoCriteria(m)]

\* ---------------------------------------------------- commit's tests
\* if not data or not self._models:
Idle(d, ms) == ~d.present \/ Len(d.y) = 0 \/ Len(ms) = 0

\* max(m.max_order for m in self._models.values())
RECURSIVE MaxOrder(_, _)
MaxOrder(ms, hp) ==
    IF Len(ms) = 1 THEN hp[ms[1].obj].prof.max_order
    ELSE Max(hp[ms[1].obj].prof.max_order, MaxOrder(Tail(ms), hp))

\* The test with >= for >.
TooShort_ge(nf, fs, max_lag, n) == nf * fs + max_lag >= n

\* if n_folds * forecast_steps + max_lag > len(data):
TooShort(nf, fs, max_lag, n) == nf * fs + max_lag > n

\* len(self._models) * (n_folds + 1) + 1
ProgressTotal(k, nf) == k * (nf + 1) + 1

\* A commit that leaves the message of the commit before.
ClearError_kept(e) == e

\* self.error(): no message is displayed.
ClearError(e) == ""

EmptyTable == [vheaders |-> <<>>, rows |-> <<>>]

\* self.model.clear()
ClearTable(t) == EmptyTable

\* model_name + ' (in-sample)'
InSampleLabel(name) == name \o " (in-sample)"

\* self._models[id] = ...: a known id keeps its place, a new one goes last.
Put(ms, id, ref) ==
    IF \E i \in 1..Len(ms) : ms[i].id = id
    THEN [i \in 1..Len(ms) |-> IF ms[i].id = id THEN [id |-> id, obj |-> ref] ELSE ms[i]]
    ELSE Append(ms, [id |-> id, obj |-> ref])

\* self._models.pop(id, None)
Pop(ms, id) == SelectSeq(ms, LAMBDA e : e.id # id)

\* Keeping the caller's object itself.
Stored_same(ref, id) == ref

\* The object set_model keeps for a model on the input: model.copy().
Stored(ref, id) == CloneRef(id)

\* Lists that live on from one model to the next.
NewList_kept(old) == old

\* full_true = [] and full_pred = [] at the start of each model.
NewList(old) == <<>>

\* An in-sample failure that adds no row.
InSampleRow_skipped(rows, ok, row) == IF ok THEN Append(rows, row) ELSE rows

\* row = ['err'] * 7 on an in-sample failure, else the score vector;
\* res.append(row).
InSampleRow(rows, ok, row) == Append(rows, IF ok THEN row ELSE ErrRow(7))

NoFold == [fold |-> 0, train_end |-> 0, train |-> <<>>, test |-> <<>>,
           prev |-> <<>>]

\* ---------------------------------------------------------------- state
VARIABLES
    data,            \* self.data
    _models,         \* self._models, in insertion order: [id, obj]
    n_folds,         \* self.n_folds
    forecast_steps,  \* self.forecast_steps
    heap,            \* the model objects: Refs -> [prof, results]
    error,           \* the message self.error displays: "", "target", "short"
    table,           \* self.model: [vheaders, rows]
    pc,              \* where commit stands: idle, model, fold, score, insample, wrap
    mi,              \* position of `model` in self._models.values()
    fold,            \* commit's fold
    full_true,       \* commit's full_true
    full_pred,       \* commit's full_pred
    res,             \* commit's res
    vheaders,        \* commit's vheaders
    progressTotal,   \* iterations given to self.progressBar
    advances,        \* progress.advance() calls of this commit
    raised,          \* the exception that left the last commit, or "none"
    calls,           \* caller-owned objects fit/predict/fittedvalues was called on
    runCalls,        \* fit/predict/fittedvalues calls of this commit
    okFolds,         \* folds of the current model that reached the extend
    lastFold,        \* the windows of the last fold run
    rerun,           \* the running commit repeats the previous one's inputs
    prevTable,       \* the table the previous commit left, while rerun
    heap0            \* the model objects as the running commit found them

locals == <<mi, fold, full_true, full_pred, res, vheaders, okFolds>>
vars == <<data, _models, n_folds, forecast_steps, heap, error, table, pc,
          mi, fold, full_true, full_pred, res, vheaders, progressTotal,
          advances, raised, calls, runCalls, okFolds, lastFold, rerun,
          prevTable, heap0>>

Init ==
    /\ data = NoData
    /\ _models = <<>>
    /\ n_folds = DefaultNFolds
    /\ forecast_steps = DefaultForecastSteps
    /\ heap = [r \in Refs |-> IF r \in CallerRefs
                              THEN [prof |-> Profiles[r], results |-> NoResults]
                              ELSE Unallocated]
    /\ error = ""
    /\ table = EmptyTable
    /\ pc = "idle"
    /\ mi = 0 /\ fold = 0
    /\ full_true = <<>> /\ full_pred = <<>>
    /\ res = <<>> /\ vheaders = <<>>
    /\ progressTotal = 0 /\ advances = 0
    /\ raised = "none"
    /\ calls = {}
    /\ runCalls = 0
    /\ okFolds = 0
    /\ lastFold = NoFold
    /\ rerun = FALSE
    /\ prevTable = EmptyTable
    /\ heap0 = heap

\* The locals of a commit that is not running.
NoLocals ==
    /\ mi' = 0 /\ fold' = 0
    /\ full_true' = <<>> /\ full_pred' = <<>>
    /\ res' = <<>> /\ vheaders' = <<>>
    /\ okFolds' = 0

\* commit(), lines 79-119, entered with the widget's fields set to
\* d, ms, nf, fs and the objects hp; `again` when the inputs are those of
\* the commit before.
commit(d, ms, nf, fs, hp, again) ==
    /\ data' = d /\ _models' = ms /\ n_folds' = nf /\ forecast_steps' = fs
    /\ heap' = hp /\ heap0' = hp
    /\ table' = ClearTable(table)
    /\ raised' = "none"
    /\ advances' = 0 /\ runCalls' = 0
    /\ lastFold' = NoFold
    /\ UNCHANGED calls
    /\ NoLocals
    /\ IF Idle(d, ms)
       THEN /\ error' = ClearError(error)
            /\ progressTotal' = 0
            /\ rerun' = FALSE /\ prevTable' = EmptyTable
            /\ pc' = "idle"
       ELSE IF ~d.target
       THEN /\ error' = "target"
            /\ progressTotal' = 0
            /\ rerun' = FALSE /\ prevTable' = EmptyTable
            /\ pc' = "idle"
       ELSE IF TooShort(nf, fs, MaxOrder(ms, hp), Len(d.y))
       THEN /\ error' = "short"
            /\ progressTotal' = 0
            /\ rerun' = FALSE /\ prevTable' = EmptyTable
            /\ pc' = "idle"
       ELSE /\ error' = ClearError(error)
            /\ progressTotal' = ProgressTotal(Len(ms), nf)
            /\ rerun' = again
            /\ prevTable' = (IF again THEN table ELSE EmptyTable)
            /\ pc' = "model"

\* ------------------------------------------------------------ handlers
\* set_data(data), lines 64-66
set_data(d) ==
    /\ pc = "idle"
    /\ commit(d, _models, n_folds, forecast_steps, heap, d = data)

\* set_model(model, id) with a model, lines 68-73
set_model(ref, id) ==
    /\ pc = "idle"
    /\ LET kept == Stored(ref, id)
           hp == [heap EXCEPT ![CloneRef(id)] = copy(heap[ref])]
       IN commit(data, Put(_models, id, kept), n_folds, forecast_steps, hp, FALSE)

\* set_model(None, id), lines 68-73; the clone dropped is no longer reachable
set_model_none(id) ==
    /\ pc = "idle"
    /\ LET hp == [heap EXCEPT ![CloneRef(id)] = Unallocated]
       IN commit(data, Pop(_models, id), n_folds, forecast_steps, hp, FALSE)

\* The "Number of folds" spin changes n_folds and calls on_changed, lines 44-46
spin_n_folds(n) ==
    /\ pc = "idle"
    /\ n # n_folds
    /\ commit(data, _models, n, forecast_steps, heap, FALSE)

\* The "Forecast steps" spin changes forecast_steps and calls on_changed, lines 47-49
spin_forecast_steps(s) ==
    /\ pc = "idle"
    /\ s # forecast_steps
    /\ commit(data, _models, n_folds, s, heap, FALSE)

\* The Apply button calls commit, line 50
apply ==
    /\ pc = "idle"
    /\ commit(data, _models, n_folds, forecast_steps, heap, TRUE)

\* --------------------------------------------------- the steps of commit
frame == <<data, _models, n_folds, forecast_steps, error, progressTotal>>
history == <<rerun, prevTable, heap0>>

\* An exception leaves commit: the table stays as commit cleared it.
Raise(exc) ==
    /\ raised' = exc
    /\ pc' = "idle"
    /\ NoLocals
    /\ heap0' = heap'
    /\ rerun' = FALSE /\ prevTable' = EmptyTable
    /\ UNCHANGED table

\* for model in self._models.values(): ... full_pred = [], lines 120-124
model_begin ==
    /\ pc = "model"
    /\ LET m == heap[_models[mi + 1].obj]
       IN vheaders' = Append(vheaders, m.prof.name)
    /\ mi' = mi + 1
    /\ full_true' = NewList(full_true) /\ full_pred' = NewList(full_pred)
    /\ okFolds' = 0
    /\ fold' = 1
    /\ pc' = "fold"
    /\ UNCHANGED <<frame, history, heap, table, res, advances, raised, calls,
                   runCalls, lastFold>>

\* One pass of `for fold in range(1, n_folds + 1)`, lines 125-137
fold_step ==
    /\ pc = "fold"
    /\ LET ref == _models[mi].obj
           n == Len(data.y)
           train_end == -fold * forecast_steps
           trainIdx == TrainIdx(n, train_end)
           train == Take(interp(data.y), trainIdx)
           fitted == fitOk(heap[ref], train)
           m1 == fit(heap[ref], train)
           predicted == fitted /\ m1.prof.pred # "raise"
           testIdx == TestIdx(n, train_end, forecast_steps)
           ft == full_true \o Take(data.y, testIdx)
           fp == full_pred \o predict(m1, forecast_steps)
       IN /\ heap' = [heap EXCEPT ![ref] = m1]
          /\ calls' = calls \cup ({ref} \cap CallerRefs)
          /\ runCalls' = runCalls + (IF fitted THEN 2 ELSE 1)
          /\ advances' = advances + 1
          /\ lastFold' = [fold |-> fold, train_end |-> train_end,
                          train |-> trainIdx, test |-> testIdx,
                          prev |-> IF fold = 1 THEN <<>> ELSE lastFold.train]
          /\ IF predicted /\ Len(ft) # Len(fp)
             THEN /\ Raise("AssertionError")
                  /\ UNCHANGED <<frame>>
             ELSE /\ full_true' = (IF predicted THEN ft ELSE full_true)
                  /\ full_pred' = (IF predicted THEN fp ELSE full_pred)
                  /\ okFolds' = (IF predicted THEN okFolds + 1 ELSE okFolds)
                  /\ fold' = (IF fold < n_folds THEN fold + 1 ELSE fold)
                  /\ pc' = (IF fold < n_folds THEN "fold" ELSE "score")
                  /\ UNCHANGED <<frame, history, table, mi, res, vheaders, raised>>

\* res.append(_score_vector(model, full_true, full_pred)) and the
\* in-sample label, lines 139-141
score_oos ==
    /\ pc = "score"
    /\ LET sv == _score_vector(heap[_models[mi].obj], full_true, full_pred)
       IN IF sv.exc # "none"
          THEN Raise(sv.exc)
          ELSE /\ UNCHANGED history
               /\ res' = Append(res, sv.row)
               /\ vheaders' = Append(vheaders,
                      InSampleLabel(heap[_models[mi].obj].prof.name))
               /\ pc' = "insample"
               /\ UNCHANGED <<table, mi, fold, full_true, full_pred,
                              okFolds, raised>>
    /\ UNCHANGED <<frame, heap, advances, calls, runCalls, lastFold>>

\* The in-sample pass, lines 142-151
in_sample ==
    /\ pc = "insample"
    /\ LET ref == _models[mi].obj
           interp_data == interp(data.y)
           fitted == fitOk(heap[ref], interp_data)
           m1 == fit(heap[ref], interp_data)
           ok == fitted /\ m1.prof.fv # "raise"
           sv == _score_vector(m1, data.y, fittedvalues(m1))
       IN /\ heap' = [heap EXCEPT ![ref] = m1]
          /\ calls' = calls \cup ({ref} \cap CallerRefs)
          /\ runCalls' = runCalls + (IF fitted THEN 2 ELSE 1)
          /\ IF ok /\ sv.exc # "none"
             THEN Raise(sv.exc)
             ELSE /\ res' = InSampleRow(res, ok, sv.row)
                  /\ pc' = (IF mi < Len(_models) THEN "model" ELSE "wrap")
                  /\ UNCHANGED <<history, table, mi, fold, full_true, full_pred,
                                 vheaders, okFolds, raised>>
    /\ UNCHANGED <<frame, advances, lastFold>>

\* setVerticalHeaderLabels(vheaders); wrap(res), lines 153-154
wrap ==
    /\ pc = "wrap"
    /\ table' = [vheaders |-> vheaders, rows |-> res]
    /\ pc' = "idle"
    /\ NoLocals
    /\ heap0' = heap
    /\ rerun' = FALSE /\ prevTable' = EmptyTable
    /\ UNCHANGED <<frame, heap, advances, raised, calls, runCalls, lastFold>>

Next ==
    \/ \E d \in DataInputs : set_data(d)
    \/ \E ref \in CallerRefs, id \in Ids : set_model(ref, id)
    \/ \E id \in Ids : set_model_none(id)
    \/ \E n \in 1..MaxFolds : spin_n_folds(n)
    \/ \E s \in 1..MaxSteps : spin_forecast_steps(s)
    \/ apply
    \/ model_begin
    \/ fold_step
    \/ score_oos
    \/ in_sample
    \/ wrap

Spec == Init /\ [][Next]_vars

\* ================================================================ claims
Finished == pc = "idle" /\ progressTotal > 0 /\ raised = "none"
NameOf(i) == heap[_models[i].obj].prof.name
ProfOf(i) == heap[_models[i].obj].prof
FiveErr(row) == \A c \in 1..5 : row[c] = Err
AllNaN(s) == \A i \in 1..Len(s) : s[i] = NaN

\* C1: a commit that passed its preconditions and ran to completion with k
\* models leaves 2k rows of seven cells and 2k labels: name, name (in-sample)
\* for each model in the insertion order of _models, whatever failed.
C1_RowsAndLabels ==
    Finished =>
        /\ Len(table.rows) = 2 * Len(_models)
        /\ Len(table.vheaders) = 2 * Len(_models)
        /\ \A r \in 1..Len(table.rows) : Len(table.rows[r]) = 7
        /\ \A i \in 1..Len(_models) :
              /\ table.vheaders[2 * i - 1] = NameOf(i)
              /\ table.vheaders[2 * i] = NameOf(i) \o " (in-sample)"

\* Two models, the first failing in-sample, the second in every fold.
C1_Witness ==
    /\ Finished
    /\ Len(_models) = 2
    /\ Len(table.rows) = 4
    /\ table.rows[2] = ErrRow(7)
    /\ FiveErr(table.rows[3])

\* C2 as stated: with a target column and n_folds * forecast_steps +
\* max(max_order) > len(data) commit reports "too short", leaves the table
\* empty, calls no model and advances no progress; otherwise it reports no
\* "too short" and the fold loop runs.
C2_Original ==
    (pc = "idle" /\ data.present /\ data.target /\ Len(_models) > 0) =>
        IF n_folds * forecast_steps + MaxOrder(_models, heap) > Len(data.y)
        THEN error = "short" /\ table = EmptyTable /\ runCalls = 0 /\ advances = 0
        ELSE error # "short" /\ advances > 0 /\ runCalls > 0

\* C2 amended: the same, for data that is not empty.
C2_TooShort ==
    (pc = "idle" /\ data.present /\ data.target /\ Len(_models) > 0
        /\ Len(data.y) > 0) =>
        IF n_folds * forecast_steps + MaxOrder(_models, heap) > Len(data.y)
        THEN error = "short" /\ table = EmptyTable /\ runCalls = 0 /\ advances = 0
        ELSE error # "short" /\ advances > 0 /\ runCalls > 0

\* A series one observation short of what the folds and max_order need.
C2_Witness ==
    /\ pc = "idle" /\ error = "short"
    /\ data.target /\ Len(_models) > 0
    /\ n_folds * forecast_steps + MaxOrder(_models, heap) = Len(data.y) + 1

\* C3: with data and a model present, commit ends without an exception,
\* with a populated table or with one of the two fatal messages.
C3_NoExceptionEscapes ==
    (pc = "idle" /\ ~Idle(data, _models)) =>
        /\ raised = "none"
        /\ table # EmptyTable \/ error \in {"target", "short"}

RECURSIVE AloneFolds(_, _, _, _, _)
AloneFolds(acc, y, nf, fs, f) ==
    IF f > nf THEN acc
    ELSE LET cut == Len(y) - f * fs
             train == SubSeq(interp(y), 1, cut)
             m1 == fit(acc.m, train)
             ok == fitOk(acc.m, train) /\ m1.prof.pred # "raise"
         IN AloneFolds(
                [m |-> m1,
                 ft |-> IF ok THEN acc.ft \o SubSeq(y, cut + 1, cut + fs) ELSE acc.ft,
                 fp |-> IF ok THEN acc.fp \o predict(m1, fs) ELSE acc.fp,
                 fits |-> acc.fits \/ fitOk(acc.m, train)],
                y, nf, fs, f + 1)

\* The state of the model after the folds, and its two rows.
Alone(m0) ==
    LET a == AloneFolds([m |-> m0, ft |-> <<>>, fp |-> <<>>, fits |-> FALSE],
                        data.y, n_folds, forecast_steps, 1)
        m2 == fit(a.m, interp(data.y))
        ok == fitOk(a.m, interp(data.y)) /\ m2.prof.fv # "raise"
    IN [oos |-> _score_vector(a.m, a.ft, a.fp).row,
        ins |-> IF ok THEN _score_vector(m2, data.y, fittedvalues(m2)).row
                ELSE ErrRow(7),
        fits |-> a.fits,
        insOk |-> ok]

C5_AdvancesReachTotal ==
    /\ progressTotal > 0 =>
          /\ progressTotal = Len(_models) * (n_folds + 1) + 1
          /\ advances <= progressTotal
    /\ Finished => advances = progressTotal

\* C6: a commit that repeats the inputs of the commit before it ends with
\* the table that commit left.
C6_RerunSameTable ==
    (pc = "wrap" /\ rerun) => [vheaders |-> vheaders, rows |-> res] = prevTable

\* C7: every stored model is the clone made for its id, and fit, predict
\* and fittedvalues have never been called on an object of the caller, whose
\* fitted state is as it was.
C7_CallerModelsUntouched ==
    /\ calls = {}
    /\ \A i \in 1..Len(_models) : _models[i].obj = CloneRef(_models[i].id)
    /\ \A r \in CallerRefs : heap[r] = [prof |-> Profiles[r], results |-> NoResults]

\* Two stored clones have been fitted in a finished evaluation.
C7_Witness ==
    /\ Finished
    /\ Len(_models) = 2
    /\ \A i \in 1..2 : heap[_models[i].obj].results.fitted

\* C8: with data absent or empty, or no model registered, the table is
\* empty and no message is displayed; and a displayed message always comes
\* with an empty table.
C8_IdleSilent ==
    /\ (pc = "idle" /\ (~data.present \/ Len(data.y) = 0 \/ Len(_models) = 0)) =>
          table = EmptyTable /\ error = ""
    /\ error # "" => table = EmptyTable

\* The data was removed after an evaluation that fitted a stored model.
C8_Witness ==
    /\ pc = "idle"
    /\ ~data.present
    /\ Len(_models) > 0
    /\ heap[_models[1].obj].results.fitted

\* C9 as stated: the accumulated lengths are equal and forecast_steps times
\* the folds that succeeded, and the five error cells are 'err' exactly when
\* no fold succeeded.
C9_Original ==
    /\ pc \in {"fold", "score", "insample"} =>
          /\ Len(full_true) = Len(full_pred)
          /\ Len(full_true) = forecast_steps * okFolds
    /\ pc = "insample" => (FiveErr(res[Len(res)]) <=> okFolds = 0)

\* C9 amended: the five error cells are 'err' exactly when no accumulated
\* true value is a number, which includes the case that no fold succeeded.
C9_Accumulation ==
    /\ pc \in {"fold", "score", "insample"} =>
          /\ Len(full_true) = Len(full_pred)
          /\ Len(full_true) = forecast_steps * okFolds
    /\ pc = "insample" =>
          /\ FiveErr(res[Len(res)]) <=> AllNaN(full_true)
          /\ okFolds = 0 => FiveErr(res[Len(res)])

\* Of two folds one succeeded and one failed, and the row is scored.
C9_Witness ==
    /\ pc = "insample"
    /\ n_folds = 2 /\ okFolds = 1
    /\ ~FiveErr(res[Len(res)])

\* C10: in every fold run, train_end = -fold * forecast_steps; the training
\* window is the prefix of length N - fold * forecast_steps, no shorter than
\* the largest max_order; the test window is the forecast_steps positions
\* right after it; and the prefix is a strict prefix of the fold before's.
C10_FoldWindows ==
    lastFold.fold >= 1 =>
        LET n == Len(data.y)
            f == lastFold.fold
            cut == n - f * forecast_steps
        IN /\ lastFold.train_end = -f * forecast_steps
           /\ lastFold.train = [i \in 1..cut |-> i - 1]
           /\ cut >= MaxOrder(_models, heap)
           /\ lastFold.test = [i \in 1..forecast_steps |-> cut + i - 1]
           /\ \A i \in 1..Len(lastFold.test) :
                 /\ lastFold.test[i] <= n - (f - 1) * forecast_steps - 1
                 /\ \A j \in 1..Len(lastFold.train) :
                       lastFold.train[j] < lastFold.test[i]
           /\ f > 1 =>
                 /\ Len(lastFold.train) < Len(lastFold.prev)
                 /\ lastFold.train = SubSeq(lastFold.prev, 1, Len(lastFold.train))

\* The second fold of a model, with a training window that is not empty.
C10_Witness ==
    /\ lastFold.fold = 2
    /\ Len(lastFold.train) >= 1
    /\ Len(lastFold.test) >= 1

====
